---------------------------- MODULE Spec2Model ----------------------------
(***************************************************************************)
(* Generation orchestration layer of the travel planner backend:           *)
(*   services/gemini_service.py  async_gemini_generate_content,            *)
(*                               async_generate_image_files                *)
(*   routes/travel.py            generate_itinerary, travel_options        *)
(*                                                                         *)
(* Python values (JSON values, dicts, lists, strings) are modelled as      *)
(* tagged records; provider texts are modelled as sequences of JSON        *)
(* tokens and json.loads as a parser over them.                            *)
(***************************************************************************)
EXTENDS Integers, Sequences, FiniteSets, TLC

(***************************************************************************)
(* Bounds of the model.                                                    *)
(***************************************************************************)
\* largest number of options the search provider lists for one mode
MaxOptions == 2

\* largest number of prompts of a direct call of async_generate_image_files
MaxBatch == 3

\* largest number of photo prompts the text provider gives an entity
MaxPrompts == 3

(***************************************************************************)
(* Constants of the program.                                               *)
(***************************************************************************)
\* routes/travel.py line 216: photo_prompts[:2]
PromptCap == 2

(***************************************************************************)
(* Python / JSON values.  Every value is a record with the same fields:    *)
(*   t  the type tag: "null" "num" "str" "arr" "dict" "kv"                 *)
(*   s  the string of a "str", the key of a "kv"                           *)
(*   n  the number of a "num"                                              *)
(*   l  the elements of an "arr", the members of a "dict" (each a "kv",    *)
(*      in insertion order, as Python dicts keep it), the value of a "kv"  *)
(***************************************************************************)
None == [t |-> "null", s |-> "", n |-> 0, l |-> <<>>]

Num(n) == [t |-> "num", s |-> "", n |-> n, l |-> <<>>]

Str(s) == [t |-> "str", s |-> s, n |-> 0, l |-> <<>>]

Arr(l) == [t |-> "arr", s |-> "", n |-> 0, l |-> l]

KV(k, v) == [t |-> "kv", s |-> k, n |-> 0, l |-> <<v>>]

Dict(members) == [t |-> "dict", s |-> "", n |-> 0, l |-> members]

IsDict(v) == v.t = "dict"

\* bool(v): None, 0, "", [] and {} are falsy
Truthy(v) ==
    CASE v.t = "null" -> FALSE
      [] v.t = "num" -> v.n # 0
      [] v.t = "str" -> v.s # ""
      [] OTHER -> v.l # <<>>

\* key in d
HasKey(d, k) == \E i \in 1..Len(d.l) : d.l[i].s = k

\* d.get(k, default)
Get(d, k, default) ==
    IF HasKey(d, k)
    THEN d.l[CHOOSE i \in 1..Len(d.l) : d.l[i].s = k].l[1]
    ELSE default

\* d[k] = v : an existing key keeps its position, a new key goes last
SetItem(d, k, v) ==
    IF HasKey(d, k)
    THEN Dict([i \in 1..Len(d.l) |-> IF d.l[i].s = k THEN KV(k, v) ELSE d.l[i]])
    ELSE Dict(Append(d.l, KV(k, v)))

\* d.setdefault(k, v)
SetDefault(d, k, v) == IF HasKey(d, k) THEN d ELSE SetItem(d, k, v)

\* del d[k]  /  d.pop(k, ...) for its effect on d
DelItem(d, k) == Dict(SelectSeq(d.l, LAMBDA m : m.s # k))

\* list(d.keys())
Keys(d) == [i \in 1..Len(d.l) |-> d.l[i].s]

(***************************************************************************)
(* JSON text.  A text is a sequence of tokens, each a record               *)
(*   c  the class: "p" punctuation { } [ ], "key" an object key with its   *)
(*      colon, "str" a string literal, "num" a number, "null", "ws"        *)
(*      whitespace, "word" a word of prose                                 *)
(*   v  the punctuation mark, the key, the string or the word              *)
(*   n  the number                                                         *)
(* Commas are not tokens.                                                  *)
(***************************************************************************)
P(v) == [c |-> "p", v |-> v, n |-> 0]

K(v) == [c |-> "key", v |-> v, n |-> 0]

S(v) == [c |-> "str", v |-> v, n |-> 0]

N(n) == [c |-> "num", v |-> "", n |-> n]

W(v) == [c |-> "word", v |-> v, n |-> 0]

Null == [c |-> "null", v |-> "", n |-> 0]

Ws == [c |-> "ws", v |-> "", n |-> 0]

LBrace == P("{")

RBrace == P("}")

LBracket == P("[")

RBracket == P("]")

ParseFail == [ok |-> FALSE, val |-> None, rest |-> <<>>]

ParseOk(v, rest) == [ok |-> TRUE, val |-> v, rest |-> rest]

RECURSIVE ParseValue(_)
RECURSIVE ParseMembers(_, _)
RECURSIVE ParseElements(_, _)

\* one JSON value at the head of ts
ParseValue(ts) ==
    IF ts = <<>> THEN ParseFail
    ELSE LET h == Head(ts)
             r == Tail(ts)
         IN  CASE h = LBrace -> ParseMembers(r, Dict(<<>>))
               [] h = LBracket -> ParseElements(r, <<>>)
               [] h.c = "null" -> ParseOk(None, r)
               [] h.c = "str" -> ParseOk(Str(h.v), r)
               [] h.c = "num" -> ParseOk(Num(h.n), r)
               [] OTHER -> ParseFail

\* the members of an object up to its closing brace; a repeated key keeps
\* the last value
ParseMembers(ts, acc) ==
    IF ts = <<>> THEN ParseFail
    ELSE IF Head(ts) = RBrace THEN ParseOk(acc, Tail(ts))
    ELSE IF Head(ts).c = "key"
         THEN LET r == ParseValue(Tail(ts))
              IN  IF r.ok
                  THEN ParseMembers(r.rest, SetItem(acc, Head(ts).v, r.val))
                  ELSE ParseFail
         ELSE ParseFail

\* the elements of an array up to its closing bracket
ParseElements(ts, acc) ==
    IF ts = <<>> THEN ParseFail
    ELSE IF Head(ts) = RBracket THEN ParseOk(Arr(acc), Tail(ts))
    ELSE LET r == ParseValue(ts)
         IN  IF r.ok THEN ParseElements(r.rest, Append(acc, r.val))
             ELSE ParseFail

\* json.loads(text): [ok |-> FALSE] stands for json.JSONDecodeError
json_loads(text) ==
    LET ts == SelectSeq(text, LAMBDA c : c.c # "ws")
        r == ParseValue(ts)
    IN  IF r.ok /\ r.rest = <<>>
        THEN [ok |-> TRUE, val |-> r.val]
        ELSE [ok |-> FALSE, val |-> None]

\* text.find(c): the 0-based index of the first c, -1 when there is none
find(text, c) ==
    IF \E i \in 1..Len(text) : text[i] = c
    THEN (CHOOSE i \in 1..Len(text) :
            text[i] = c /\ \A j \in 1..(i - 1) : text[j] # c) - 1
    ELSE -1

\* text.rfind(c): the 0-based index of the last c, -1 when there is none
rfind(text, c) ==
    IF \E i \in 1..Len(text) : text[i] = c
    THEN (CHOOSE i \in 1..Len(text) :
            text[i] = c /\ \A j \in (i + 1)..Len(text) : text[j] # c) - 1
    ELSE -1

\* text[a:b] for 0 <= a
Slice(text, a, b) == SubSeq(text, a + 1, b)

RECURSIVE Concat(_)
\* the concatenation of a sequence of texts
Concat(texts) == IF texts = <<>> THEN <<>> ELSE Head(texts) \o Concat(Tail(texts))

RECURSIVE Dumps(_)
\* the JSON text of a value, as a provider writes it
Dumps(v) ==
    CASE v.t = "null" -> <<Null>>
      [] v.t = "num" -> <<N(v.n)>>
      [] v.t = "str" -> <<S(v.s)>>
      [] v.t = "arr" ->
            <<LBracket>> \o Concat([i \in 1..Len(v.l) |-> Dumps(v.l[i])]) \o <<RBracket>>
      [] v.t = "dict" ->
            <<LBrace>>
                \o Concat([i \in 1..Len(v.l) |-> <<K(v.l[i].s)>> \o Dumps(v.l[i].l[1])])
                \o <<RBrace>>

(***************************************************************************)
(* The texts the search provider may answer with.                          *)
(***************************************************************************)
\* the i-th option object of a list: {"route_name": "TGV"} / {"route_name": "Ouigo"}
OptionText(i) ==
    <<LBrace, K("route_name"), IF i % 2 = 1 THEN S("TGV") ELSE S("Ouigo"), RBrace>>

\* a JSON list of k well-formed options
OptionListText(k) ==
    <<LBracket>> \o Concat([i \in 1..k |-> OptionText(i)]) \o <<RBracket>>

\* what a mode key may be mapped to: lists of 0..MaxOptions options, a list
\* holding an option without route_name, null, a bare string
ModeValueTexts ==
    {OptionListText(k) : k \in 0..MaxOptions}
        \cup {<<LBracket, LBrace, RBrace, RBracket>>, <<Null>>, <<S("TGV")>>}

\* the travel_options mappings: up to two modes, in either key order
MappingTexts ==
    {<<LBrace, RBrace>>}
        \cup {<<LBrace, K(k)>> \o v \o <<RBrace>> :
                k \in {"train", "bus", "flight"}, v \in ModeValueTexts}
        \cup {<<LBrace, K(ks[1])>> \o v \o <<K(ks[2])>> \o w \o <<RBrace>> :
                ks \in {<<"train", "bus">>, <<"bus", "train">>, <<"flight", "train">>},
                v \in ModeValueTexts, w \in ModeValueTexts}

\* the spec's example: {"train": [{"route_name": "TGV"}], "bus": []}
TrainBusText ==
    <<LBrace, K("train")>> \o OptionListText(1)
        \o <<K("bus"), LBracket, RBracket, RBrace>>

\* a top-level object with any of origin, destination, origin_city,
\* travel_options present
ObjectText(o, d, c, t) == <<LBrace>> \o o \o d \o c \o t \o <<RBrace>>

ObjectTexts ==
    {ObjectText(o, d, c, t) :
        o \in {<<>>, <<K("origin"), S("Lille")>>, <<K("origin"), Null>>},
        d \in {<<>>, <<K("destination"), S("Nice")>>},
        c \in {<<>>, <<K("origin_city"), S("Rome")>>},
        t \in {<<>>, <<K("travel_options"), Null>>,
               <<K("travel_options"), LBracket, RBracket>>,
               <<K("travel_options")>> \o TrainBusText,
               <<K("travel_options"), LBrace, RBrace>>}}
        \cup {ObjectText(<<>>, <<>>, <<>>, <<K("travel_options")>> \o m) :
                m \in MappingTexts}

\* texts that are no JSON object: nothing, JSON scalars and arrays, prose,
\* unbalanced or truncated objects
OtherTexts ==
    {<<>>, <<N(5)>>, <<N(0)>>, <<Null>>, <<S("Lille")>>, <<LBracket, RBracket>>,
     <<LBracket, N(5), RBracket>>, <<W("Here")>>, <<LBrace>>, <<RBrace>>,
     <<RBrace, LBrace>>, <<LBrace, K("origin")>>,
     <<LBrace, K("origin"), S("Lille")>>}

Prefixes == {<<>>, <<W("Here")>>, <<Ws>>, <<LBracket>>, <<RBrace>>}

Suffixes == {<<>>, <<W("Thanks")>>, <<Ws>>, <<RBracket>>, <<LBrace>>}

ProviderTexts ==
    {p \o core \o s : p \in Prefixes, core \in ObjectTexts \cup OtherTexts,
                      s \in Suffixes}

\* prose: words and whitespace, no JSON punctuation
Prose == {<<>>, <<W("Here")>>, <<Ws>>, <<W("Thanks")>>}

(***************************************************************************)
(* Requests.                                                               *)
(***************************************************************************)
\* TravelOptionsRequest (recency_filter is passed through to the provider)
TravelOptionsRequests ==
    [origin_city : {"Paris"}, destination_city : {"Lyon", "Nice"}]

(***************************************************************************)
(* State.                                                                  *)
(*   opt   one execution of travel_options: pc its position, payload the   *)
(*         request, text and data the handler's locals, log the DEBUG      *)
(*         lines printed, response the TravelOptionsResponse returned,     *)
(*         detail the HTTPException detail                                 *)
(*   gw    one call of async_gemini_generate_content: pc its position,     *)
(*         schema whether response_schema was given, default the           *)
(*         default_response, task the state of response_task, timer the    *)
(*         timer of wait_for, provider the remote side of the request,     *)
(*         reply what the provider answered to the task, late whether an   *)
(*         answer came after the task was cancelled, requests the number   *)
(*         of provider requests issued, exc/at the exception in flight and *)
(*         where it was raised, response the local of that name, result    *)
(*         and outcome what the call returned                              *)
(*   img   one call of async_generate_image_files: pc its position, its    *)
(*         arguments prompts, output_dir (a path, as its segments) and     *)
(*         base_file_name, per prompt the state of its task, the answer of *)
(*         the image provider and what _gen_for_index returned (<<>> for   *)
(*         None), completed the tasks in the order they finished, requests *)
(*         the number of provider requests issued, returned the list       *)
(*         handed back                                                     *)
(*   fs    the file system: the paths written, and those written again     *)
(*   it    one execution of generate_itinerary: pc its position, payload   *)
(*         the request, data, dest_slug and output_dir the locals of those *)
(*         names, d and e the day and the entity the loops stand at,       *)
(*         response the ItineraryResponse returned, detail the             *)
(*         HTTPException detail                                            *)
(***************************************************************************)
VARIABLES opt, gw, img, fs, it

vars == <<opt, gw, img, fs, it>>

OptIdle ==
    [pc |-> "idle", payload |-> [origin_city |-> "", destination_city |-> ""],
     text |-> <<>>, data |-> None, log |-> <<>>, response |-> None,
     detail |-> ""]

NoReply == [kind |-> "none", text |-> <<>>, exc |-> ""]

GwIdle ==
    [pc |-> "idle", schema |-> FALSE, default |-> None, task |-> "none",
     timer |-> "off", provider |-> "idle", reply |-> NoReply, late |-> FALSE,
     requests |-> 0, exc |-> "", at |-> "", response |-> NoReply,
     result |-> None, outcome |-> "none"]

ImgIdle ==
    [pc |-> "idle", prompts |-> <<>>, output_dir |-> <<>>, base_file_name |-> "",
     task |-> <<>>, reply |-> <<>>, result |-> <<>>, completed |-> <<>>,
     requests |-> 0, returned |-> <<>>]

FsEmpty == [files |-> {}, rewritten |-> {}]

ItIdle ==
    [pc |-> "idle",
     payload |-> [home_city |-> "", destination_city |-> "", num_days |-> 0],
     data |-> None, dest_slug |-> "", output_dir |-> <<>>, d |-> 0, e |-> 0,
     response |-> None, detail |-> ""]

\* raise HTTPException(status_code=500, detail=str(e))
OptRaise(e) == opt' = [opt EXCEPT !.pc = "http500", !.detail = e]

\* what travel_options leaves alone
OptFrame == UNCHANGED <<gw, img, fs, it>>

\* the fallback minimal structure with every mode empty
EmptyModes ==
    Dict(<<KV("train", Arr(<<>>)), KV("bus", Arr(<<>>)), KV("car_taxi", Arr(<<>>)),
           KV("car_transport", Arr(<<>>)), KV("part_load_transport", Arr(<<>>)),
           KV("flight", Arr(<<>>))>>)

DefaultStructure(payload) ==
    Dict(<<KV("origin", Str(payload.origin_city)),
           KV("destination", Str(payload.destination_city)),
           KV("travel_options", EmptyModes)>>)

(***************************************************************************)
(* travel_options (routes/travel.py)                                       *)
(***************************************************************************)
\* Extract with the closing brace searched from the left (find for rfind)
ExtractFirstClosingBrace(text) ==
    IF text = <<>> THEN [data |-> None, log |-> <<>>]
    ELSE LET direct == json_loads(text)
         IN  IF direct.ok
             THEN [data |-> direct.val, log |-> <<"Successfully parsed JSON">>]
             ELSE LET start_idx == find(text, LBrace)
                      end_idx == find(text, RBrace) + 1
                      cleaned == json_loads(Slice(text, start_idx, end_idx))
                  IN  IF start_idx # -1 /\ end_idx > start_idx /\ cleaned.ok
                      THEN [data |-> cleaned.val,
                            log |-> <<"JSON parsing failed",
                                      "Successfully parsed cleaned JSON">>]
                      ELSE [data |-> None,
                            log |-> <<"JSON parsing failed",
                                      "Cleaned JSON parsing also failed">>]

\* lines 269-290: the direct parse, then the parse of text[first "{" : last
\* "}" + 1]; data stays None when both fail.  The result carries the DEBUG
\* lines printed on the way.
Extract(text) ==
    IF text = <<>> THEN [data |-> None, log |-> <<>>]
    ELSE LET direct == json_loads(text)
         IN  IF direct.ok
             THEN [data |-> direct.val, log |-> <<"Successfully parsed JSON">>]
             ELSE LET start_idx == find(text, LBrace)
                      end_idx == rfind(text, RBrace) + 1
                      cleaned == json_loads(Slice(text, start_idx, end_idx))
                  IN  IF start_idx # -1 /\ end_idx > start_idx /\ cleaned.ok
                      THEN [data |-> cleaned.val,
                            log |-> <<"JSON parsing failed",
                                      "Successfully parsed cleaned JSON">>]
                      ELSE [data |-> None,
                            log |-> <<"JSON parsing failed",
                                      "Cleaned JSON parsing also failed">>]

\* Backfill by assignment instead of setdefault
BackfillOverwrites(data, payload) ==
    SetItem(
        SetItem(
            SetItem(data, "origin", Str(payload.origin_city)),
            "destination", Str(payload.destination_city)),
        "travel_options", EmptyModes)

\* lines 309-318: the three setdefault calls
Backfill(data, payload) ==
    SetDefault(
        SetDefault(
            SetDefault(data, "origin", Str(payload.origin_city)),
            "destination", Str(payload.destination_city)),
        "travel_options", EmptyModes)

\* lines 326-331: one {mode, options} entry per key with truthy options
ModeEntry(kv) == Dict(<<KV("mode", Str(kv.s)), KV("options", kv.l[1])>>)

\* ModesList without the `if options` test
ModesListUnfiltered(travel_options) ==
    [i \in 1..Len(travel_options.l) |-> ModeEntry(travel_options.l[i])]

ModesList(travel_options) ==
    LET kept == SelectSeq(travel_options.l, LAMBDA kv : Truthy(kv.l[1]))
    IN  [i \in 1..Len(kept) |-> ModeEntry(kept[i])]

\* lines 321-335
Reshape(data) ==
    IF HasKey(data, "travel_options")
    THEN DelItem(
            SetItem(data, "modes", Arr(ModesList(Get(data, "travel_options", Dict(<<>>))))),
            "travel_options")
    ELSE data

\* lines 338-339: data["origin_city"] = data.pop("origin", payload.origin_city), ...
Rename(data, payload) ==
    LET origin == Get(data, "origin", Str(payload.origin_city))
        d1 == SetItem(DelItem(data, "origin"), "origin_city", origin)
        destination == Get(d1, "destination", Str(payload.destination_city))
    IN  SetItem(DelItem(d1, "destination"), "destination_city", destination)

\* models/schemas.py: what pydantic accepts for each response model
ValidTravelOption(o) ==
    IsDict(o) /\ HasKey(o, "route_name") /\ Get(o, "route_name", None).t = "str"

ValidTravelMode(m) ==
    /\ IsDict(m)
    /\ HasKey(m, "mode") /\ Get(m, "mode", None).t = "str"
    /\ HasKey(m, "options") /\ Get(m, "options", None).t = "arr"
    /\ \A i \in 1..Len(Get(m, "options", None).l) :
            ValidTravelOption(Get(m, "options", None).l[i])

ValidTravelOptionsResponse(data) ==
    /\ HasKey(data, "origin_city") /\ Get(data, "origin_city", None).t = "str"
    /\ HasKey(data, "destination_city")
    /\ Get(data, "destination_city", None).t = "str"
    /\ HasKey(data, "modes") /\ Get(data, "modes", None).t = "arr"
    /\ \A i \in 1..Len(Get(data, "modes", None).l) :
            ValidTravelMode(Get(data, "modes", None).l[i])

\* TravelOptionsResponse(**data): the declared fields, in declaration order;
\* keys the models do not declare are dropped
TravelOption(o) == Dict(<<KV("route_name", Get(o, "route_name", None))>>)

TravelMode(m) ==
    LET options == Get(m, "options", None).l
    IN  Dict(<<KV("mode", Get(m, "mode", None)),
               KV("options", Arr([i \in 1..Len(options) |-> TravelOption(options[i])]))>>)

TravelOptionsResponse(data) ==
    LET modes == Get(data, "modes", None).l
    IN  Dict(<<KV("origin_city", Get(data, "origin_city", None)),
               KV("destination_city", Get(data, "destination_city", None)),
               KV("modes", Arr([i \in 1..Len(modes) |-> TravelMode(modes[i])]))>>)

\* lines 244-265: the search provider answers; the handler takes the first
\* choice's message content, "" when there is no choice
OptCall ==
    /\ opt.pc = "call"
    /\ \/ OptRaise("ProviderError")
       \/ opt' = [opt EXCEPT !.pc = "parse", !.text = <<>>]
       \/ \E text \in ProviderTexts :
            opt' = [opt EXCEPT !.pc = "parse", !.text = text]
    /\ OptFrame

\* lines 267-290
OptParse ==
    /\ opt.pc = "parse"
    /\ LET r == Extract(opt.text)
       IN  opt' = [opt EXCEPT !.pc = "fallback", !.data = r.data,
                              !.log = opt.log \o r.log]
    /\ OptFrame

\* lines 292-306
OptFallback ==
    /\ opt.pc = "fallback"
    /\ IF opt.data = None
       THEN opt' = [opt EXCEPT !.pc = "backfill",
                               !.data = DefaultStructure(opt.payload),
                               !.log = Append(opt.log, "Using fallback structure")]
       ELSE opt' = [opt EXCEPT !.pc = "backfill"]
    /\ OptFrame

\* lines 308-318: setdefault exists on dicts only
OptBackfill ==
    /\ opt.pc = "backfill"
    /\ IF IsDict(opt.data)
       THEN opt' = [opt EXCEPT !.pc = "reshape",
                               !.data = Backfill(opt.data, opt.payload)]
       ELSE OptRaise("AttributeError")
    /\ OptFrame

\* lines 320-335: .items() exists on dicts only
OptReshape ==
    /\ opt.pc = "reshape"
    /\ IF HasKey(opt.data, "travel_options")
          /\ ~IsDict(Get(opt.data, "travel_options", Dict(<<>>)))
       THEN OptRaise("AttributeError")
       ELSE opt' = [opt EXCEPT !.pc = "rename", !.data = Reshape(opt.data)]
    /\ OptFrame

\* lines 337-339
OptRename ==
    /\ opt.pc = "rename"
    /\ opt' = [opt EXCEPT !.pc = "validate",
                          !.data = Rename(opt.data, opt.payload)]
    /\ OptFrame

\* line 341, and lines 342-344 when pydantic rejects data
OptReturn ==
    /\ opt.pc = "validate"
    /\ IF ValidTravelOptionsResponse(opt.data)
       THEN opt' = [opt EXCEPT !.pc = "returned",
                               !.response = TravelOptionsResponse(opt.data)]
       ELSE OptRaise("ValidationError")
    /\ OptFrame

InitOptions ==
    /\ \E payload \in TravelOptionsRequests :
            opt = [OptIdle EXCEPT !.pc = "call", !.payload = payload]
    /\ gw = GwIdle
    /\ img = ImgIdle
    /\ fs = FsEmpty
    /\ it = ItIdle

NextOptions ==
    \/ OptCall
    \/ OptParse
    \/ OptFallback
    \/ OptBackfill
    \/ OptReshape
    \/ OptRename
    \/ OptReturn

SpecOptions == InitOptions /\ [][NextOptions]_vars

(***************************************************************************)
(* Properties of travel_options, checked under SpecOptions.                *)
(***************************************************************************)
OptDone == opt.pc \in {"returned", "http500"}

\* the request ended otherwise than by a failure of the provider call itself
OptAnswered == OptDone /\ opt.detail # "ProviderError"

\* no part of the text is a JSON object
NoJSONObject(text) ==
    \A a \in 1..Len(text) : \A b \in a..Len(text) :
        LET r == json_loads(SubSeq(text, a, b))
        IN  ~(r.ok /\ IsDict(r.val))

\* the response of the default structure: the request's cities, no modes
DefaultResponse(payload) ==
    Dict(<<KV("origin_city", Str(payload.origin_city)),
           KV("destination_city", Str(payload.destination_city)),
           KV("modes", Arr(<<>>))>>)

\* C8 (as claimed): a request whose provider text holds no JSON object at all
\* (empty text, no choices, no braces, JSON that is not an object) ends in a
\* successful response equal to the default structure.
C8_NoObjectGivesDefault ==
    (OptAnswered /\ NoJSONObject(opt.text)) =>
        (opt.pc = "returned" /\ opt.response = DefaultResponse(opt.payload))

\* the text has a first "{" with a last "}" behind it
BracePair(text) == find(text, LBrace) # -1 /\ rfind(text, RBrace) + 1 > find(text, LBrace)

BraceSlice(text) == Slice(text, find(text, LBrace), rfind(text, RBrace) + 1)

InLog(line) == \E i \in 1..Len(opt.log) : opt.log[i] = line

OptParsed == opt.pc \notin {"idle", "call", "parse"} /\ opt.detail # "ProviderError"

\* text is p, then something, then s
SurroundedBy(text, p, s) ==
    /\ Len(text) >= Len(p) + Len(s)
    /\ SubSeq(text, 1, Len(p)) = p
    /\ SubSeq(text, Len(text) - Len(s) + 1, Len(text)) = s

Inner(text, p, s) == SubSeq(text, Len(p) + 1, Len(text) - Len(s))

\* a valid JSON object, from its opening to its closing brace
IsObjectText(text) ==
    /\ text # <<>>
    /\ Head(text) = LBrace
    /\ json_loads(text).ok

\* C9: extraction is ordered.  A text that parses directly is never cut at
\* its braces; the brace slice is parsed only after the direct parse failed;
\* the default structure is used only when there is no brace pair or the
\* brace slice does not parse.  A JSON object surrounded by prose is the
\* object that goes on to normalisation.
C9_ExtractionOrder ==
    OptParsed =>
        /\ (opt.text # <<>> /\ json_loads(opt.text).ok) =>
                opt.log[1] = "Successfully parsed JSON"
        /\ InLog("Successfully parsed cleaned JSON") =>
                /\ ~json_loads(opt.text).ok
                /\ BracePair(opt.text)
                /\ opt.pc = "fallback" => opt.data = json_loads(BraceSlice(opt.text)).val
        /\ InLog("Using fallback structure") =>
                (~BracePair(opt.text) \/ ~json_loads(BraceSlice(opt.text)).ok)
        /\ opt.pc = "fallback" =>
                \A p \in Prose, s \in Prose :
                    (SurroundedBy(opt.text, p, s)
                        /\ IsObjectText(Inner(opt.text, p, s))) =>
                            opt.data = json_loads(Inner(opt.text, p, s)).val

\* C9 witness: an object between two words of prose was cut out and parsed
C9_Witness ==
    /\ opt.pc = "fallback"
    /\ opt.text = <<W("Here"), LBrace, K("travel_options")>> \o TrainBusText
                    \o <<RBrace, W("Thanks")>>
    /\ InLog("Successfully parsed cleaned JSON")
    /\ IsDict(opt.data)

\* the travel_options mapping the reshape step starts from
OptMapping ==
    LET d0 == Extract(opt.text).data
        d1 == IF d0 = None THEN DefaultStructure(opt.payload) ELSE d0
    IN  Get(d1, "travel_options", EmptyModes)

NonEmptyList(v) == v.t = "arr" /\ v.l # <<>>

\* the number of keys among the first i of mapping m with a non-empty list
Rank(m, i) == Cardinality({k \in 1..i : NonEmptyList(m.l[k].l[1])})

\* modes holds, in key order, exactly the keys of m with a non-empty list,
\* each with its list
ModesMatch(modes, m) ==
    /\ Len(modes) = Rank(m, Len(m.l))
    /\ \A i \in 1..Len(m.l) :
            NonEmptyList(m.l[i].l[1]) =>
                /\ Get(modes[Rank(m, i)], "mode", None) = Str(m.l[i].s)
                /\ Get(modes[Rank(m, i)], "options", None) = m.l[i].l[1]

\* C10: after the reshape the travel_options key is gone; when every mode is
\* mapped to a list, modes holds one entry per key with a non-empty list, in
\* key order, the list unchanged; a response never has a mode without options.
C10_ModesReshaped ==
    (opt.pc \in {"rename", "validate", "returned"}) =>
        /\ ~HasKey(opt.data, "travel_options")
        /\ HasKey(opt.data, "modes")
        /\ (\A i \in 1..Len(OptMapping.l) : OptMapping.l[i].l[1].t = "arr") =>
                ModesMatch(Get(opt.data, "modes", None).l, OptMapping)
        /\ opt.pc = "returned" =>
                /\ ModesMatch(Get(opt.response, "modes", None).l, OptMapping)
                /\ \A i \in 1..Len(Get(opt.response, "modes", None).l) :
                        Get(Get(opt.response, "modes", None).l[i], "options", None).l # <<>>
                /\ ~HasKey(opt.response, "travel_options")

\* C10 witness: {"travel_options": {"train": [one option], "bus": []}} was
\* answered with exactly one mode, train
C10_Witness ==
    /\ opt.pc = "returned"
    /\ opt.text = <<LBrace, K("travel_options")>> \o TrainBusText \o <<RBrace>>
    /\ Len(Get(opt.response, "modes", None).l) = 1
    /\ Get(Get(opt.response, "modes", None).l[1], "mode", None) = Str("train")

(***************************************************************************)
(* async_gemini_generate_content (services/gemini_service.py)              *)
(***************************************************************************)
\* a Python str holding a provider text
Text(tokens) == [t |-> "text", s |-> "", n |-> 0, l |-> tokens]

\* what the text provider may answer to one generate_content request: a
\* response with one of the given texts (the empty text included), a response
\* whose .text cannot be read, no response object, an exception
Replies(texts) ==
    [kind : {"response"}, text : texts \cup {<<>>}, exc : {""}]
        \cup {[kind |-> "text_raises", text |-> <<>>, exc |-> "ValueError"],
              [kind |-> "no_response", text |-> <<>>, exc |-> ""],
              [kind |-> "raise", text |-> <<>>, exc |-> "APIError"],
              [kind |-> "raise", text |-> <<>>, exc |-> "TimeoutError"]}

\* the exception classes met here all derive from Exception
IsException(exc) ==
    exc \in {"ValidationError", "APIError", "TimeoutError", "ValueError", "OSError"}

\* only the inner handler (line 63), and nothing else
CatchesTimeoutOnly(exc, at) == IF at = "wait_for" /\ exc = "TimeoutError" THEN "timeout" ELSE "raised"

\* the handler an exception raised at `at` lands in: the inner try (lines
\* 61-66) takes asyncio.TimeoutError out of the await, the outer try (lines
\* 41-89) every Exception; "raised" is propagation to the caller
Catches(exc, at) ==
    IF at = "wait_for" /\ exc = "TimeoutError" THEN "timeout"
    ELSE IF IsException(exc) THEN "except"
    ELSE "raised"

\* raise exc at `at`
GwRaise(exc, at) ==
    LET handler == Catches(exc, at)
    IN  IF handler = "raised"
        THEN [gw EXCEPT !.pc = "returned", !.outcome = "raised", !.exc = exc, !.at = at]
        ELSE [gw EXCEPT !.pc = handler, !.exc = exc, !.at = at]

\* return value
GwReturn(g, value, outcome) ==
    [g EXCEPT !.pc = "returned", !.result = value, !.outcome = outcome]

\* the call, with its arguments (line 28)
GwCall(schema, default) ==
    [GwIdle EXCEPT !.pc = "config", !.schema = schema, !.default = default]

\* lines 42-53: types.GenerateContentConfig(...) validates its arguments
GwConfig ==
    /\ gw.pc = "config"
    /\ \/ gw' = [gw EXCEPT !.pc = "create_task"]
       \/ gw' = GwRaise("ValidationError", "config")
    /\ UNCHANGED <<opt, img, fs, it>>

\* lines 55-62: the request is issued as a task and awaited under the timer
GwCreateTask ==
    /\ gw.pc = "create_task"
    /\ gw' = [gw EXCEPT !.pc = "wait_for", !.task = "pending",
                        !.provider = "working", !.timer = "running",
                        !.requests = gw.requests + 1]
    /\ UNCHANGED <<opt, img, fs, it>>

\* the provider answers the request in flight; an answer to a task that is
\* no longer pending goes nowhere
ProviderReplies(texts) ==
    /\ gw.provider = "working"
    /\ \E reply \in Replies(texts) :
        IF gw.task = "pending"
        THEN gw' = [gw EXCEPT !.provider = "replied", !.reply = reply,
                              !.task = IF reply.kind = "raise" THEN "failed" ELSE "done"]
        ELSE gw' = [gw EXCEPT !.provider = "replied", !.late = TRUE]
    /\ UNCHANGED <<opt, img, fs, it>>

\* a wait_for whose timer cannot cut off a pending task: an await without a
\* deadline
GwTimerSparesPending ==
    /\ gw.pc = "wait_for"
    /\ gw.timer = "running"
    /\ gw.task # "pending"
    /\ gw' = [GwRaise("TimeoutError", "wait_for") EXCEPT !.timer = "expired"]
    /\ UNCHANGED <<opt, img, fs, it>>

\* line 62: the timer of wait_for fires before wait_for has returned: a
\* pending task is cancelled, and wait_for raises asyncio.TimeoutError.  (A
\* task that finished in the same loop iteration is left as it is; its
\* result is dropped by wait_for.)
GwTimerExpires ==
    /\ gw.pc = "wait_for"
    /\ gw.timer = "running"
    /\ gw' = [GwRaise("TimeoutError", "wait_for") EXCEPT
                !.timer = "expired",
                !.task = IF gw.task = "pending" THEN "cancelled" ELSE gw.task]
    /\ UNCHANGED <<opt, img, fs, it>>

\* line 62: the task finished first: its result is assigned to response, its
\* exception is raised from the await
GwWaitForReturns ==
    /\ gw.pc = "wait_for"
    /\ gw.timer = "running"
    /\ \/ /\ gw.task = "done"
          /\ gw' = [gw EXCEPT !.pc = "check", !.timer = "off", !.response = gw.reply]
       \/ /\ gw.task = "failed"
          /\ gw' = [GwRaise(gw.reply.exc, "wait_for") EXCEPT !.timer = "off"]
    /\ UNCHANGED <<opt, img, fs, it>>

\* GwTimeout issuing the request again instead of giving up
GwTimeoutRetries ==
    /\ gw.pc = "timeout"
    /\ IF gw.requests < 2
       THEN gw' = [gw EXCEPT !.pc = "wait_for", !.task = "pending",
                             !.provider = "working", !.timer = "running",
                             !.requests = gw.requests + 1]
       ELSE gw' = GwReturn(gw, gw.default, "fallback")
    /\ UNCHANGED <<opt, img, fs, it>>

\* lines 63-66: response_task.cancel() (nothing to do on a finished or
\* cancelled task), return default_response
GwTimeout ==
    /\ gw.pc = "timeout"
    /\ gw' = GwReturn([gw EXCEPT !.task = IF gw.task = "pending" THEN "cancelled"
                                           ELSE gw.task],
                      gw.default, "fallback")
    /\ UNCHANGED <<opt, img, fs, it>>

\* GwCheck without the tests of response.text for emptiness
GwCheckNoEmptyTest ==
    /\ gw.pc = "check"
    /\ IF gw.response.kind = "no_response"
       THEN gw' = GwReturn(gw, gw.default, "fallback")
       ELSE IF gw.response.kind = "text_raises"
       THEN gw' = GwRaise(gw.response.exc, "check")
       ELSE IF gw.schema
       THEN IF json_loads(gw.response.text).ok
            THEN gw' = GwReturn(gw, json_loads(gw.response.text).val, "parsed")
            ELSE gw' = GwReturn(gw, gw.default, "fallback")
       ELSE gw' = GwReturn(gw, Text(gw.response.text), "raw")
    /\ UNCHANGED <<opt, img, fs, it>>

\* lines 68-85
GwCheck ==
    /\ gw.pc = "check"
    /\ IF gw.response.kind = "no_response"
       THEN gw' = GwReturn(gw, gw.default, "fallback")
       ELSE IF gw.response.kind = "text_raises"
       THEN gw' = GwRaise(gw.response.exc, "check")
       ELSE IF gw.schema
       THEN IF gw.response.text # <<>>
            THEN IF json_loads(gw.response.text).ok
                 THEN gw' = GwReturn(gw, json_loads(gw.response.text).val, "parsed")
                 ELSE gw' = GwReturn(gw, gw.default, "fallback")
            ELSE gw' = GwReturn(gw, gw.default, "fallback")
       ELSE IF gw.response.text # <<>>
            THEN gw' = GwReturn(gw, Text(gw.response.text), "raw")
            ELSE gw' = GwReturn(gw, gw.default, "fallback")
    /\ UNCHANGED <<opt, img, fs, it>>

\* lines 87-89
GwExcept ==
    /\ gw.pc = "except"
    /\ gw' = GwReturn(gw, gw.default, "fallback")
    /\ UNCHANGED <<opt, img, fs, it>>

\* the texts of a direct call: nothing parsable, JSON scalars, an object
GatewayTexts ==
    {<<W("Here")>>, <<Ws>>, <<N(5)>>, <<Null>>, <<S("Lille")>>, <<LBrace>>,
     <<LBrace, K("origin"), S("Lille"), RBrace>>,
     <<W("Here"), LBrace, RBrace>>, <<LBracket, LBrace, RBrace, RBracket>>}

GatewayDefaults == {None, Str("fallback"), Dict(<<KV("days", Arr(<<>>))>>)}

GwProviderReplies == ProviderReplies(GatewayTexts)

InitGateway ==
    /\ opt = OptIdle
    /\ img = ImgIdle
    /\ fs = FsEmpty
    /\ it = ItIdle
    /\ \E schema \in BOOLEAN, default \in GatewayDefaults :
            gw = GwCall(schema, default)

NextGateway ==
    \/ GwConfig
    \/ GwCreateTask
    \/ GwProviderReplies
    \/ GwTimerExpires
    \/ GwWaitForReturns
    \/ GwTimeout
    \/ GwCheck
    \/ GwExcept

SpecGateway == InitGateway /\ [][NextGateway]_vars

(***************************************************************************)
(* async_generate_image_files (services/gemini_service.py)                 *)
(***************************************************************************)
\* the parts of a candidate: "text" has no inline_data, "png" and "bin" carry
\* bytes of MIME type image/png and of a type mimetypes does not know
DataParts == {"png", "bin"}

\* what the image provider may answer to one request: an exception, no
\* candidates, a candidate with parts; write is what open()/write() do with
\* the file
ImageReplies ==
    {[kind |-> "raise", parts |-> <<>>, write |-> "ok"],
     [kind |-> "no_candidates", parts |-> <<>>, write |-> "ok"],
     [kind |-> "parts", parts |-> <<"png">>, write |-> "OSError"]}
        \cup [kind : {"parts"},
              parts : {<<>>, <<"png">>, <<"text", "png">>, <<"png", "bin">>, <<"bin">>},
              write : {"ok"}]

NoImageReply == [kind |-> "none", parts |-> <<>>, write |-> "ok"]

\* the index (from 0) of the last part with inline data: the loop of lines
\* 128-141 without its break
LastDataPart(parts) ==
    IF \E i \in 1..Len(parts) : parts[i] \in DataParts
    THEN (CHOOSE i \in 1..Len(parts) :
            parts[i] \in DataParts /\ \A j \in (i + 1)..Len(parts) : parts[j] \notin DataParts) - 1
    ELSE -1

\* lines 128-129: the index (from 0) of the first part with inline data, -1
\* when there is none
FirstDataPart(parts) ==
    IF \E i \in 1..Len(parts) : parts[i] \in DataParts
    THEN (CHOOSE i \in 1..Len(parts) :
            parts[i] \in DataParts /\ \A j \in 1..(i - 1) : parts[j] \notin DataParts) - 1
    ELSE -1

\* line 134: mimetypes.guess_extension(mime_type) or ".bin"
FileExtension(part) == IF part = "png" THEN ".png" ELSE ".bin"

\* lines 117, 136: f"{base_file_name}_{index}_{part_index}{file_extension}"
FileName(base_file_name, index, part_index, file_extension) ==
    base_file_name \o "_" \o ToString(index) \o "_" \o ToString(part_index)
        \o file_extension

\* lines 135-137: os.path.join(output_dir, name)
FilePath(output_dir, name) == Append(output_dir, name)

\* lines 120-144: the path _gen_for_index(index, ...) writes for an answer,
\* <<>> when it writes none
WrittenPath(output_dir, base_file_name, index, reply) ==
    IF reply.kind = "parts" /\ FirstDataPart(reply.parts) # -1 /\ reply.write = "ok"
    THEN FilePath(output_dir,
                  FileName(base_file_name, index, FirstDataPart(reply.parts),
                           FileExtension(reply.parts[FirstDataPart(reply.parts) + 1])))
    ELSE <<>>

\* the exception _gen_for_index meets on an answer, "" when there is none
TaskException(reply) ==
    IF reply.kind = "raise" THEN "APIError"
    ELSE IF reply.kind = "parts" /\ FirstDataPart(reply.parts) # -1
            /\ reply.write # "ok"
         THEN reply.write
    ELSE ""

\* a task without the except clause of lines 142-143
TaskEndsUncaught(reply) == IF TaskException(reply) = "" THEN "done" ELSE "raised"

\* lines 120-144: how a task ends: `except Exception: return None` makes
\* every task end by returning
TaskEnds(reply) ==
    IF TaskException(reply) = "" \/ IsException(TaskException(reply))
    THEN "done"
    ELSE "raised"

\* open(file_path, "wb"): the file is created, or written over
WriteFile(path) ==
    IF path = <<>> THEN fs
    ELSE [files |-> fs.files \cup {path},
          rewritten |-> IF path \in fs.files THEN fs.rewritten \cup {path}
                        ELSE fs.rewritten]

\* the call, with its arguments (line 94)
ImgCall(prompts, output_dir, base_file_name) ==
    [ImgIdle EXCEPT !.pc = "start", !.prompts = prompts, !.output_dir = output_dir,
                    !.base_file_name = base_file_name]

\* lines 97-149: one task per prompt; gather starts them all, in prompt
\* order, and each runs up to its request
ImgStart ==
    /\ img.pc = "start"
    /\ img' = [img EXCEPT !.pc = "gather",
                          !.task = [i \in 1..Len(img.prompts) |-> "pending"],
                          !.reply = [i \in 1..Len(img.prompts) |-> NoImageReply],
                          !.result = [i \in 1..Len(img.prompts) |-> <<>>],
                          !.requests = img.requests + Len(img.prompts)]
    /\ UNCHANGED <<opt, gw, fs, it>>

\* lines 121-144: the provider answers task i, which then runs to its end
\* (index is i - 1: enumerate counts from 0)
ImgTaskCompletes(replies) ==
    /\ img.pc = "gather"
    /\ \E i \in 1..Len(img.prompts), reply \in replies :
        /\ img.task[i] = "pending"
        /\ LET path == WrittenPath(img.output_dir, img.base_file_name, i - 1, reply)
           IN  /\ img' = [img EXCEPT !.task[i] = TaskEnds(reply),
                                     !.reply[i] = reply,
                                     !.result[i] = path,
                                     !.completed = Append(img.completed, i)]
               /\ fs' = WriteFile(path)
    /\ UNCHANGED <<opt, gw, it>>

\* the results in the order the tasks finished
ResultsAsCompleted(g) == [j \in 1..Len(g.completed) |-> g.result[g.completed[j]]]

\* line 149: asyncio.gather returns the results in the order of its arguments
GatherResults(g) == [i \in 1..Len(g.prompts) |-> g.result[i]]

\* lines 149-151: gather raises the first exception of a task at once
\* (return_exceptions=False); otherwise it returns when every task is done,
\* and the results that are not None are returned
ImgGather ==
    /\ img.pc = "gather"
    /\ IF \E i \in 1..Len(img.prompts) : img.task[i] = "raised"
       THEN img' = [img EXCEPT !.pc = "raised"]
       ELSE /\ \A i \in 1..Len(img.prompts) : img.task[i] = "done"
            /\ img' = [img EXCEPT !.pc = "returned",
                                  !.returned = SelectSeq(GatherResults(img),
                                                         LAMBDA r : r # <<>>)]
    /\ UNCHANGED <<opt, gw, fs, it>>

ImgTaskCompletesAny == ImgTaskCompletes(ImageReplies)

\* the prompts of a direct call: "prompt 1", "prompt 2", ...
Prompts(n) == [i \in 1..n |-> "prompt " \o ToString(i)]

InitImages ==
    /\ opt = OptIdle
    /\ gw = GwIdle
    /\ fs = FsEmpty
    /\ it = ItIdle
    /\ \E n \in 0..MaxBatch :
            img = ImgCall(Prompts(n), <<"app", "static", "itineraries", "kyoto">>, "gion")

NextImages ==
    \/ ImgStart
    \/ ImgTaskCompletesAny
    \/ ImgGather

SpecImages == InitImages /\ [][NextImages]_vars

(***************************************************************************)
(* Strings and paths of generate_itinerary (routes/travel.py)              *)
(***************************************************************************)
\* the characters of the names that are turned into slugs
Chars(name) ==
    CASE name = "Kyoto" -> <<"K", "y", "o", "t", "o">>
      [] name = "New York" -> <<"N", "e", "w", " ", "Y", "o", "r", "k">>
      [] name = ".." -> <<".", ".">>
      [] name = "Gion" -> <<"G", "i", "o", "n">>
      [] name = "gion" -> <<"g", "i", "o", "n">>
      [] name = "Old Town" -> <<"O", "l", "d", " ", "T", "o", "w", "n">>
      [] name = "entity" -> <<"e", "n", "t", "i", "t", "y">>

\* str.lower(), character by character
LowerChar(c) ==
    CASE c = "K" -> "k"
      [] c = "N" -> "n"
      [] c = "Y" -> "y"
      [] c = "G" -> "g"
      [] c = "O" -> "o"
      [] c = "T" -> "t"
      [] OTHER -> c

RECURSIVE JoinChars(_)
\* the string of a sequence of characters
JoinChars(cs) == IF cs = <<>> THEN "" ELSE Head(cs) \o JoinChars(Tail(cs))

\* lines 210, 223: name.lower().replace(" ", "-")
Slug(name) ==
    JoinChars([i \in 1..Len(Chars(name)) |->
                IF LowerChar(Chars(name)[i]) = " " THEN "-"
                ELSE LowerChar(Chars(name)[i])])

\* utils.files.static_dir(): the root of the static file store
static_dir == <<"app", "static">>

RECURSIVE NormPath(_)
\* os.path.normpath of an absolute path: ".." drops the segment before it
NormPath(path) ==
    IF path = <<>> THEN <<>>
    ELSE LET init == NormPath(SubSeq(path, 1, Len(path) - 1))
             last == path[Len(path)]
         IN  IF last = ".." THEN SubSeq(init, 1, Len(init) - 1)
             ELSE IF last = "." THEN init
             ELSE Append(init, last)

\* the length of the longest common prefix of two paths
CommonPrefix(p, q) ==
    CHOOSE n \in 0..Len(p) :
        /\ n <= Len(q)
        /\ \A i \in 1..n : p[i] = q[i]
        /\ (n < Len(p) /\ n < Len(q)) => p[n + 1] # q[n + 1]

\* os.path.relpath(path, start)
relpath(path, start) ==
    LET p == NormPath(path)
        q == NormPath(start)
        n == CommonPrefix(p, q)
    IN  [i \in 1..(Len(q) - n) |-> ".."] \o SubSeq(p, n + 1, Len(p))

RECURSIVE JoinPath(_)
\* the segments of a path joined with "/"
JoinPath(path) ==
    IF path = <<>> THEN "."
    ELSE IF Len(path) = 1 THEN path[1]
    ELSE path[1] \o "/" \o JoinPath(Tail(path))

image_base_url == "/static"

\* line 227: f"{image_base_url}/{os.path.relpath(fp, static_dir())}"
ImageUrl(fp) == image_base_url \o "/" \o JoinPath(relpath(fp, static_dir))

(***************************************************************************)
(* Requests and provider answers of generate_itinerary.                    *)
(***************************************************************************)
\* ItineraryRequest, valid: num_days within 1..14 (interests only enter the
\* prompt)
ItineraryRequests ==
    [home_city : {"Boston"}, destination_city : {"Kyoto", "New York", ".."},
     num_days : {3}]

PhotoPrompts(k) == Arr([i \in 1..k |-> Str("photo " \o ToString(i))])

Entity(name, k) ==
    Dict(<<KV("name", Str(name)), KV("speciality", Str("temples")),
           KV("places_to_visit",
              Arr(<<Dict(<<KV("name", Str("Kiyomizu")), KV("description", Str("hill"))>>)>>)),
           KV("photo_prompts", PhotoPrompts(k))>>)

Day(i, entities) ==
    Dict(<<KV("day", Num(i)), KV("summary", Str("walk")), KV("entities", Arr(entities))>>)

\* an itinerary as the provider writes it: its own spelling of the cities,
\* the number of days it produced
Itinerary(days) ==
    Dict(<<KV("home_city", Str("Boston, MA")), KV("destination_city", Str("Kyoto-shi")),
           KV("num_days", Num(Len(days))), KV("days", Arr(days)),
           KV("overall_tips", Arr(<<Str("carry cash")>>))>>)

\* answers that match the schema
WellFormedItineraries ==
    {Itinerary(<<>>)}
        \cup {Itinerary(<<Day(1, <<Entity("Gion", k)>>)>>) : k \in 0..MaxPrompts}
        \cup {Itinerary(<<Day(1, <<Entity("Gion", 2), Entity("Old Town", 1)>>)>>),
              Itinerary(<<Day(1, <<Entity("Gion", 2)>>),
                          Day(2, <<Entity("Gion", 1), Entity("gion", 0)>>)>>),
              Itinerary(<<Day(1, <<Entity("Gion", 1), Entity("gion", 2)>>)>>)}

\* answers that are JSON but not of the schema's shape: not an object, no
\* days, days null, a day that is a string, a day without entities, an
\* entity without name, an entity without photo_prompts
MalformedItineraries ==
    {Arr(<<>>),
     DelItem(Itinerary(<<>>), "days"),
     SetItem(Itinerary(<<>>), "days", None),
     Itinerary(<<Str("day 1")>>),
     Itinerary(<<DelItem(Day(1, <<>>), "entities")>>),
     Itinerary(<<Day(1, <<DelItem(Entity("Gion", 1), "name")>>)>>),
     Itinerary(<<Day(1, <<DelItem(Entity("Gion", 1), "photo_prompts")>>)>>)}

\* an answer with keys the schema does not declare, on the itinerary and on
\* an entity
ExtraFieldItineraries ==
    {SetItem(Itinerary(<<Day(1, <<SetItem(Entity("Gion", 1), "rating", Num(5))>>)>>),
             "currency", Str("JPY"))}

\* the texts of the itinerary provider: the JSON of an answer, prose, JSON
\* cut short
ItineraryTexts ==
    {Dumps(v) : v \in WellFormedItineraries \cup MalformedItineraries
                        \cup ExtraFieldItineraries}
        \cup {<<W("Here")>>,
              <<W("Here")>> \o Dumps(Itinerary(<<>>)),
              SubSeq(Dumps(Itinerary(<<>>)), 1, Len(Dumps(Itinerary(<<>>))) - 1)}

\* the answers of the image provider within an itinerary request
ItineraryImageReplies ==
    {[kind |-> "raise", parts |-> <<>>, write |-> "ok"],
     [kind |-> "no_candidates", parts |-> <<>>, write |-> "ok"],
     [kind |-> "parts", parts |-> <<"png">>, write |-> "ok"],
     [kind |-> "parts", parts |-> <<"text", "png">>, write |-> "ok"],
     [kind |-> "parts", parts |-> <<"png">>, write |-> "OSError"]}

(***************************************************************************)
(* generate_itinerary (routes/travel.py)                                   *)
(***************************************************************************)
\* the call without a default_response: the parameter's default, None
\* (services/gemini_service.py line 33)
DefaultItineraryUnset(payload) == None

\* lines 188-194
DefaultItinerary(payload) ==
    Dict(<<KV("home_city", Str(payload.home_city)),
           KV("destination_city", Str(payload.destination_city)),
           KV("num_days", Num(payload.num_days)),
           KV("days", Arr(<<>>)), KV("overall_tips", Arr(<<>>))>>)

\* raise HTTPException(status_code=500, detail=str(e)) (lines 231-232)
ItRaise(e) == it' = [it EXCEPT !.pc = "http500", !.detail = e]

\* the first n elements of a list: list[:n]
Take(l, n) == SubSeq(l, 1, IF Len(l) < n THEN Len(l) ELSE n)

\* line 216: entity.get("photo_prompts", [])[:2]
PromptsOf(entity) == Take(Get(entity, "photo_prompts", Arr(<<>>)).l, PromptCap)

\* lines 214-219: what the loops meet at day d, entity e (both from 1): an
\* exception, the end of the days, the end of a day's entities, an entity
\* without prompts, an entity with prompts
LoopAt(data, d, e) ==
    IF ~IsDict(data) THEN [what |-> "raise", exc |-> "AttributeError"]
    ELSE IF Get(data, "days", Arr(<<>>)).t # "arr"
    THEN [what |-> "raise", exc |-> "TypeError"]
    ELSE IF d > Len(Get(data, "days", Arr(<<>>)).l)
    THEN [what |-> "end", exc |-> ""]
    ELSE LET day == Get(data, "days", Arr(<<>>)).l[d]
         IN  IF ~IsDict(day) THEN [what |-> "raise", exc |-> "AttributeError"]
             ELSE IF Get(day, "entities", Arr(<<>>)).t # "arr"
             THEN [what |-> "raise", exc |-> "TypeError"]
             ELSE IF e > Len(Get(day, "entities", Arr(<<>>)).l)
             THEN [what |-> "next_day", exc |-> ""]
             ELSE LET entity == Get(day, "entities", Arr(<<>>)).l[e]
                  IN  IF ~IsDict(entity)
                      THEN [what |-> "raise", exc |-> "AttributeError"]
                      ELSE IF Get(entity, "photo_prompts", Arr(<<>>)).t # "arr"
                      THEN [what |-> "raise", exc |-> "TypeError"]
                      ELSE IF PromptsOf(entity) = <<>>
                      THEN [what |-> "no_prompts", exc |-> ""]
                      ELSE [what |-> "prompts", exc |-> ""]

\* the entity the loops stand at
EntityAt(data, d, e) == Get(Get(data, "days", None).l[d], "entities", None).l[e]

\* SetEntityItem that also cuts the entity's photo_prompts to the prompts
\* that were used
SetEntityItemTruncating(data, d, e, k, v) ==
    LET days == Get(data, "days", None)
        day == days.l[d]
        entities == Get(day, "entities", None)
        entity == SetItem(SetItem(entities.l[e], "photo_prompts",
                                  Arr(PromptsOf(entities.l[e]))), k, v)
        entities2 == Arr([entities.l EXCEPT ![e] = entity])
        days2 == Arr([days.l EXCEPT ![d] = SetItem(day, "entities", entities2)])
    IN  SetItem(data, "days", days2)

\* entity[k] = v for the entity at day d, entity e
SetEntityItem(data, d, e, k, v) ==
    LET days == Get(data, "days", None)
        day == days.l[d]
        entities == Get(day, "entities", None)
        entities2 == Arr([entities.l EXCEPT ![e] = SetItem(entities.l[e], k, v)])
        days2 == Arr([days.l EXCEPT ![d] = SetItem(day, "entities", entities2)])
    IN  SetItem(data, "days", days2)

\* lines 226-228
ImageUrls(files) == Arr([i \in 1..Len(files) |-> Str(ImageUrl(files[i]))])

\* models/schemas.py: what pydantic accepts for each itinerary model
IsListOf(v, t) == v.t = "arr" /\ \A i \in 1..Len(v.l) : v.l[i].t = t

Required(d, k, t) == HasKey(d, k) /\ Get(d, k, None).t = t

ValidItineraryPlace(p) ==
    IsDict(p) /\ Required(p, "name", "str") /\ Required(p, "description", "str")

ValidItineraryEntity(x) ==
    /\ IsDict(x)
    /\ Required(x, "name", "str")
    /\ Required(x, "speciality", "str")
    /\ Required(x, "places_to_visit", "arr")
    /\ \A i \in 1..Len(Get(x, "places_to_visit", None).l) :
            ValidItineraryPlace(Get(x, "places_to_visit", None).l[i])
    /\ HasKey(x, "photo_prompts") => IsListOf(Get(x, "photo_prompts", None), "str")
    /\ HasKey(x, "image_urls") => IsListOf(Get(x, "image_urls", None), "str")

ValidItineraryDay(x) ==
    /\ IsDict(x)
    /\ Required(x, "day", "num")
    /\ Required(x, "summary", "str")
    /\ Required(x, "entities", "arr")
    /\ \A i \in 1..Len(Get(x, "entities", None).l) :
            ValidItineraryEntity(Get(x, "entities", None).l[i])
    /\ HasKey(x, "route_info") => Get(x, "route_info", None).t \in {"str", "null"}

ValidItineraryResponse(data) ==
    /\ IsDict(data)
    /\ Required(data, "home_city", "str")
    /\ Required(data, "destination_city", "str")
    /\ Required(data, "num_days", "num")
    /\ Required(data, "days", "arr")
    /\ \A i \in 1..Len(Get(data, "days", None).l) :
            ValidItineraryDay(Get(data, "days", None).l[i])
    /\ HasKey(data, "overall_tips") => IsListOf(Get(data, "overall_tips", None), "str")

\* the models built from data: the declared fields, in declaration order,
\* defaults where a key is missing
ItineraryEntity(x) ==
    Dict(<<KV("name", Get(x, "name", None)),
           KV("speciality", Get(x, "speciality", None)),
           KV("places_to_visit", Get(x, "places_to_visit", None)),
           KV("photo_prompts", Get(x, "photo_prompts", Arr(<<>>))),
           KV("image_urls", Get(x, "image_urls", Arr(<<>>)))>>)

ItineraryDay(x) ==
    LET entities == Get(x, "entities", None).l
    IN  Dict(<<KV("day", Get(x, "day", None)),
               KV("summary", Get(x, "summary", None)),
               KV("entities", Arr([i \in 1..Len(entities) |-> ItineraryEntity(entities[i])])),
               KV("route_info", Get(x, "route_info", None))>>)

ItineraryResponse(data) ==
    LET days == Get(data, "days", None).l
    IN  Dict(<<KV("home_city", Get(data, "home_city", None)),
               KV("destination_city", Get(data, "destination_city", None)),
               KV("num_days", Get(data, "num_days", None)),
               KV("days", Arr([i \in 1..Len(days) |-> ItineraryDay(days[i])])),
               KV("overall_tips", Get(data, "overall_tips", Arr(<<>>)))>>)

\* lines 112-206: the prompt, the schema and default_response are built and
\* the text provider is called
ItStart ==
    /\ it.pc = "start"
    /\ it' = [it EXCEPT !.pc = "gateway"]
    /\ gw' = GwCall(TRUE, DefaultItinerary(it.payload))
    /\ UNCHANGED <<opt, img, fs>>

\* lines 196-212: the call returns data; the slug and the output directory
\* are made
ItGatewayReturned ==
    /\ it.pc = "gateway"
    /\ gw.pc = "returned"
    /\ IF gw.outcome = "raised"
       THEN ItRaise(gw.exc)
       ELSE it' = [it EXCEPT !.pc = "loop", !.data = gw.result,
                             !.dest_slug = Slug(it.payload.destination_city),
                             !.output_dir =
                                static_dir \o <<"itineraries", Slug(it.payload.destination_city)>>,
                             !.d = 1, !.e = 1]
    /\ UNCHANGED <<opt, gw, img, fs>>

\* lines 214-224: one step of the loops over days and entities: up to the
\* call of async_generate_image_files for an entity with prompts
ItStep ==
    /\ it.pc = "loop"
    /\ LET at == LoopAt(it.data, it.d, it.e)
       IN  CASE at.what = "raise" -> ItRaise(at.exc) /\ UNCHANGED img
             [] at.what = "end" -> it' = [it EXCEPT !.pc = "validate"] /\ UNCHANGED img
             [] at.what = "next_day" ->
                    it' = [it EXCEPT !.d = it.d + 1, !.e = 1] /\ UNCHANGED img
             [] at.what = "no_prompts" ->
                    /\ it' = [it EXCEPT !.e = it.e + 1,
                                        !.data = SetEntityItem(it.data, it.d, it.e,
                                                               "image_urls", Arr(<<>>))]
                    /\ UNCHANGED img
             [] at.what = "prompts" ->
                    LET entity == EntityAt(it.data, it.d, it.e)
                        prompts == PromptsOf(entity)
                    IN  /\ it' = [it EXCEPT !.pc = "images"]
                        /\ img' = ImgCall([i \in 1..Len(prompts) |-> prompts[i].s],
                                          it.output_dir,
                                          Slug(Get(entity, "name", Str("entity")).s))
    /\ UNCHANGED <<opt, gw, fs>>

\* ItImagesReturned for a batch that is started and not awaited: the loops go
\* on with the files that are there
ItImagesNotAwaited ==
    /\ it.pc = "images"
    /\ img.pc \in {"gather", "returned"}
    /\ it' = [it EXCEPT !.pc = "loop", !.e = it.e + 1,
                        !.data = SetEntityItem(it.data, it.d, it.e, "image_urls",
                                               ImageUrls(SelectSeq(GatherResults(img),
                                                                   LAMBDA r : r # <<>>)))]
    /\ UNCHANGED <<opt, gw, img, fs>>

\* lines 220-228: the batch returns its files; they become the entity's
\* image_urls
ItImagesReturned ==
    /\ it.pc = "images"
    /\ \/ /\ img.pc = "raised"
          /\ ItRaise(TaskException(
                img.reply[CHOOSE i \in 1..Len(img.prompts) : img.task[i] = "raised"]))
       \/ /\ img.pc = "returned"
          /\ it' = [it EXCEPT !.pc = "loop", !.e = it.e + 1,
                              !.data = SetEntityItem(it.data, it.d, it.e, "image_urls",
                                                     ImageUrls(img.returned))]
    /\ UNCHANGED <<opt, gw, img, fs>>

\* ItReturn without the validation of ItineraryResponse(**data)
ItReturnUnchecked ==
    /\ it.pc = "validate"
    /\ it' = [it EXCEPT !.pc = "returned", !.response = ItineraryResponse(it.data)]
    /\ UNCHANGED <<opt, gw, img, fs>>

\* line 230, and lines 231-232 when pydantic rejects data
ItReturn ==
    /\ it.pc = "validate"
    /\ IF ValidItineraryResponse(it.data)
       THEN it' = [it EXCEPT !.pc = "returned", !.response = ItineraryResponse(it.data)]
       ELSE ItRaise("ValidationError")
    /\ UNCHANGED <<opt, gw, img, fs>>

ItProviderReplies == ProviderReplies(ItineraryTexts)

ItImgTaskCompletes == ImgTaskCompletes(ItineraryImageReplies)

Init ==
    /\ opt = OptIdle
    /\ gw = GwIdle
    /\ img = ImgIdle
    /\ fs = FsEmpty
    /\ \E payload \in ItineraryRequests :
            it = [ItIdle EXCEPT !.pc = "start", !.payload = payload]

Next ==
    \/ ItStart
    \/ GwConfig
    \/ GwCreateTask
    \/ ItProviderReplies
    \/ GwTimerExpires
    \/ GwWaitForReturns
    \/ GwTimeout
    \/ GwCheck
    \/ GwExcept
    \/ ItGatewayReturned
    \/ ItStep
    \/ ImgStart
    \/ ItImgTaskCompletes
    \/ ImgGather
    \/ ItImagesReturned
    \/ ItReturn

Spec == Init /\ [][Next]_vars

\* the steps the event loop runs for the request: the handler's own code,
\* the gateway's and the batch's, and the timer of wait_for.  The four steps
\* that work on the itinerary or parse a provider text (GwCheck, ItStep,
\* ItImagesReturned, ItReturn) have their fairness below, written with state
\* predicates.
ItHandler ==
    \/ ItStart
    \/ GwConfig
    \/ GwCreateTask
    \/ GwTimerExpires
    \/ GwWaitForReturns
    \/ GwTimeout
    \/ GwExcept
    \/ ItGatewayReturned
    \/ ImgStart
    \/ ImgGather

\* WF_vars(GwCheck), written with the state predicate that GwCheck is
\* enabled at: GwCheck is enabled exactly when gw.pc = "check" and every
\* GwCheck step leaves "check"
GwCheckFair == []<>(gw.pc # "check")

\* WF_vars(ItStep), written likewise: ItStep is enabled exactly when
\* it.pc = "loop", and the steps that change `it` there are the ItStep steps
ItStepFair == []<>(it.pc # "loop") \/ []<><<it.pc = "loop">>_it

\* WF_vars(ItImagesReturned): enabled exactly when the handler awaits a batch
\* that has ended, and every such step leaves "images"
ItImagesReturnedFair == []<>~(it.pc = "images" /\ img.pc \in {"returned", "raised"})

\* WF_vars(ItReturn): enabled exactly at "validate", which every such step
\* leaves
ItReturnFair == []<>(it.pc # "validate")

\* Spec with an event loop that keeps running what is ready, a timer that
\* fires, and an image provider that answers every request; the text
\* provider may stay silent
SpecLive ==
    /\ Spec
    /\ WF_vars(ItHandler)
    /\ GwCheckFair
    /\ ItStepFair
    /\ ItImagesReturnedFair
    /\ ItReturnFair
    /\ WF_vars(ItImgTaskCompletes)

(***************************************************************************)
(* The router of routes/travel.py: a request to /itinerary or to /options. *)
(***************************************************************************)
InitRoutes == Init \/ InitOptions

NextRoutes == Next \/ NextOptions

SpecRoutes == InitRoutes /\ [][NextRoutes]_vars

(***************************************************************************)
(* Properties of async_gemini_generate_content, checked under SpecGateway. *)
(***************************************************************************)
\* C1: the deadline is hard.  When the timer fires on a pending task the
\* task is cancelled and the timeout handler is entered; a cancelled task
\* stays cancelled, what the provider answers afterwards is stored nowhere,
\* no further request is issued, and the call returns default_response.  No
\* call issues more than one provider request.
C1_HardDeadline ==
    /\ [](gw.requests <= 1)
    /\ []((gw.pc = "returned" /\ gw.task = "cancelled") =>
            (gw.outcome = "fallback" /\ gw.result = gw.default))
    /\ [][(gw.task = "pending" /\ gw'.timer = "expired") =>
            (gw'.task = "cancelled" /\ gw'.pc = "timeout")]_vars
    /\ [][gw.task = "cancelled" =>
            /\ gw'.task = "cancelled"
            /\ gw'.requests = gw.requests
            /\ gw'.reply = gw.reply
            /\ gw'.response = gw.response]_vars

\* C1 witness: the call returned after a timeout, and the provider's answer
\* came afterwards
C1_Witness ==
    /\ gw.pc = "returned"
    /\ gw.timer = "expired"
    /\ gw.task = "cancelled"
    /\ gw.late
    /\ gw.requests = 1
    /\ gw.result = gw.default

\* wait_for handed over a response with non-empty text
GwInTime ==
    /\ gw.task = "done"
    /\ gw.timer = "off"
    /\ gw.reply.kind = "response"
    /\ gw.reply.text # <<>>

\* C2: a call returns the parsed value (schema given, text in time, non-empty
\* and parsable), the raw text unchanged (no schema, text in time and
\* non-empty), and default_response in every other case.
C2_ThreeOutcomes ==
    gw.pc = "returned" =>
        /\ gw.outcome \in {"parsed", "raw", "fallback"}
        /\ IF gw.schema /\ GwInTime /\ json_loads(gw.reply.text).ok
           THEN gw.outcome = "parsed" /\ gw.result = json_loads(gw.reply.text).val
           ELSE IF ~gw.schema /\ GwInTime
           THEN gw.outcome = "raw" /\ gw.result = Text(gw.reply.text)
           ELSE gw.outcome = "fallback" /\ gw.result = gw.default

\* C2 witness: without a schema, a text that is no JSON came back as it was
C2_Witness ==
    /\ gw.pc = "returned"
    /\ ~gw.schema
    /\ gw.outcome = "raw"
    /\ gw.result = Text(<<W("Here")>>)

\* C3: no exception leaves the call: whatever was raised while building the
\* request, awaiting the task or reading the text, default_response is
\* returned.
C3_NoPropagation ==
    gw.pc = "returned" =>
        /\ gw.outcome # "raised"
        /\ gw.exc # "" => (gw.outcome = "fallback" /\ gw.result = gw.default)

\* C3 witness: the provider task raised, and the call returned the default
C3_Witness ==
    /\ gw.pc = "returned"
    /\ gw.exc = "APIError"
    /\ gw.at = "wait_for"
    /\ gw.task = "failed"
    /\ gw.result = gw.default

(***************************************************************************)
(* Properties of generate_itinerary, checked under Spec.                   *)
(***************************************************************************)
Days(data) == Get(data, "days", Arr(<<>>)).l

Entities(day) == Get(day, "entities", Arr(<<>>)).l

\* the text provider timed out: the timer of wait_for fired
TextTimedOut == gw.timer = "expired"

\* C4: when the text provider times out, the request does not fail, no image
\* request is issued, and the response has days == [], overall_tips == []
\* and the home city, destination city and number of days of the request.
C4_TimeoutGivesEmptyItinerary ==
    TextTimedOut =>
        /\ it.pc # "http500"
        /\ img = ImgIdle
        /\ fs = FsEmpty
        /\ it.pc = "returned" =>
            /\ Get(it.response, "days", None) = Arr(<<>>)
            /\ Get(it.response, "overall_tips", None) = Arr(<<>>)
            /\ Get(it.response, "home_city", None) = Str(it.payload.home_city)
            /\ Get(it.response, "destination_city", None) = Str(it.payload.destination_city)
            /\ Get(it.response, "num_days", None) = Num(it.payload.num_days)

\* C4 witness: a request for New York was answered after the text provider
\* timed out and its task was cancelled
C4_Witness ==
    /\ it.pc = "returned"
    /\ TextTimedOut
    /\ gw.task = "cancelled"
    /\ it.payload.destination_city = "New York"
    /\ Get(it.response, "days", None) = Arr(<<>>)

\* the prompts (from 1) whose task wrote a file
Successful(g) ==
    {i \in 1..Len(g.prompts) :
        /\ g.reply[i].kind = "parts"
        /\ FirstDataPart(g.reply[i].parts) # -1
        /\ g.reply[i].write = "ok"}

\* the prompt a returned path comes from
PromptOf(g, path) == CHOOSE i \in 1..Len(g.prompts) : g.result[i] = path

\* C6: a failing task neither cancels its siblings nor raises to the caller:
\* a task's end changes no other task, no task is ever cancelled, the batch
\* returns only when every task is done, every successful sibling's file is in
\* the result, and a batch in which every prompt fails returns [], which gives
\* the entity image_urls == [] and lets the request go on.
C6_FailuresStayLocal ==
    /\ [](img.pc # "raised")
    /\ [](img.pc \in {"gather", "returned"} =>
            \A i \in 1..Len(img.prompts) : img.task[i] \in {"pending", "done"})
    /\ [](img.pc = "returned" =>
            /\ \A i \in 1..Len(img.prompts) : img.task[i] = "done"
            /\ \A i \in Successful(img) :
                    \E j \in 1..Len(img.returned) : img.returned[j] = img.result[i]
            /\ Successful(img) = {} => img.returned = <<>>)
    /\ [][(img.pc = "gather" /\ img'.pc = "gather") =>
            \A i, k \in 1..Len(img.prompts) :
                (img'.task[i] # img.task[i] /\ k # i) =>
                    (img'.task[k] = img.task[k] /\ img'.result[k] = img.result[k])]_vars
    /\ [][(it.pc = "images" /\ it'.pc # "images" /\ img.returned = <<>>) =>
            /\ it'.pc = "loop"
            /\ Get(EntityAt(it'.data, it.d, it.e), "image_urls", None) = Arr(<<>>)]_vars

\* C6 witness: in one request, the first prompt of a batch of two failed and
\* its sibling's file is the entity's only image; and the only prompt of the
\* next entity's batch met a provider exception, which left that entity with
\* image_urls == [] in the response
C6_Witness ==
    /\ it.pc = "returned"
    /\ Len(Days(it.response)) = 1
    /\ Len(Entities(Days(it.response)[1])) = 2
    /\ Get(Entities(Days(it.response)[1])[1], "image_urls", None)
            = Arr(<<Str("/static/itineraries/kyoto/gion_1_0.png")>>)
    /\ Get(Entities(Days(it.response)[1])[2], "photo_prompts", None) # Arr(<<>>)
    /\ Get(Entities(Days(it.response)[1])[2], "image_urls", None) = Arr(<<>>)
    /\ img.reply = <<[kind |-> "raise", parts |-> <<>>, write |-> "ok"]>>

\* the names a file of an entity can have
FileNames ==
    {FileName(base, index, part_index, ext) :
        base \in {"gion", "old-town", "entity"}, index \in 0..(MaxPrompts - 1),
        part_index \in 0..1, ext \in {".png", ".bin"}}

\* url is prefix followed by a file name
UrlUnder(url, prefix) == \E name \in FileNames : url = prefix \o name

\* C7: every batch has one or two prompts, and in a response every entity
\* has at most min(2, len(photo_prompts)) image URLs, none when it has no
\* photo prompts, each beginning with /static/itineraries/{destination-slug}/.
C7_ImageUrlsOfEntity ==
    /\ img.pc # "idle" => (Len(img.prompts) \in 1..2 /\ img.requests <= 2)
    /\ it.pc = "returned" =>
        \A d \in 1..Len(Days(it.response)) :
            \A e \in 1..Len(Entities(Days(it.response)[d])) :
                LET entity == Entities(Days(it.response)[d])[e]
                    prompts == Get(entity, "photo_prompts", None).l
                    urls == Get(entity, "image_urls", None).l
                IN  /\ Len(urls) <= (IF Len(prompts) < 2 THEN Len(prompts) ELSE 2)
                    /\ prompts = <<>> => urls = <<>>
                    /\ \A u \in 1..Len(urls) :
                            UrlUnder(urls[u].s,
                                     "/static/itineraries/"
                                        \o Slug(it.payload.destination_city) \o "/")

(***************************************************************************)
(* Properties of async_generate_image_files, checked under SpecImages.     *)
(***************************************************************************)
\* C5: whatever the order in which the tasks finish, the returned list is
\* the files of the successful prompts, each written, in increasing order of
\* the prompt index, with no entry for a failed prompt.
C5_ResultFollowsPromptOrder ==
    img.pc = "returned" =>
        /\ Len(img.returned) = Cardinality(Successful(img))
        /\ \A j \in 1..Len(img.returned) :
            /\ img.returned[j] # <<>>
            /\ img.returned[j] \in fs.files
            /\ PromptOf(img, img.returned[j]) \in Successful(img)
            /\ img.returned[j] = WrittenPath(img.output_dir, img.base_file_name,
                                             PromptOf(img, img.returned[j]) - 1,
                                             img.reply[PromptOf(img, img.returned[j])])
        /\ \A j, k \in 1..Len(img.returned) :
            j < k => PromptOf(img, img.returned[j]) < PromptOf(img, img.returned[k])

\* C5 witness: of three prompts the last finished first and the first last,
\* the second failed, and the files of the first and the third were returned
\* in that order
C5_Witness ==
    /\ img.pc = "returned"
    /\ img.completed = <<3, 2, 1>>
    /\ img.reply[2].kind = "raise"
    /\ img.returned = <<<<"app", "static", "itineraries", "kyoto", "gion_0_0.png">>,
                        <<"app", "static", "itineraries", "kyoto", "gion_2_1.png">>>>

(***************************************************************************)
(* Frame of the backfill and the rename of travel_options, checked under   *)
(* SpecOptions.                                                            *)
(***************************************************************************)
\* the keys of d as a set
KeySet(d) == {d.l[i].s : i \in 1..Len(d.l)}

\* d2 has the value of d for every key of d outside `except`
SameOutside(d, d2, except) ==
    \A k \in KeySet(d) \ except : HasKey(d2, k) /\ Get(d2, k, None) = Get(d, k, None)

\* what the backfill gives a missing key
BackfillDefault(k, payload) ==
    CASE k = "origin" -> Str(payload.origin_city)
      [] k = "destination" -> Str(payload.destination_city)
      [] k = "travel_options" -> EmptyModes

\* C11: the backfill step leaves every key the parsed object has as it is
\* and gives origin, destination and travel_options the request's origin,
\* the request's destination and the empty-modes default only where the key
\* is absent; the rename step puts the values of origin and destination
\* under origin_city and destination_city, whatever the provider wrote
\* there, removes origin and destination and changes no other key; the
\* response carries those two values.
C11_BackfillRenameFrame ==
    /\ [][(opt.pc = "backfill" /\ opt'.pc = "reshape") =>
            /\ SameOutside(opt.data, opt'.data, {})
            /\ KeySet(opt'.data) = KeySet(opt.data) \cup {"origin", "destination", "travel_options"}
            /\ \A k \in {"origin", "destination", "travel_options"} \ KeySet(opt.data) :
                    Get(opt'.data, k, None) = BackfillDefault(k, opt.payload)]_vars
    /\ [][(opt.pc = "rename" /\ opt'.pc = "validate") =>
            /\ Get(opt'.data, "origin_city", None) = Get(opt.data, "origin", None)
            /\ Get(opt'.data, "destination_city", None) = Get(opt.data, "destination", None)
            /\ KeySet(opt'.data) =
                    (KeySet(opt.data) \ {"origin", "destination"})
                        \cup {"origin_city", "destination_city"}
            /\ SameOutside(opt.data, opt'.data,
                           {"origin", "destination", "origin_city", "destination_city"})]_vars
    /\ [][(opt.pc = "validate" /\ opt'.pc = "returned") =>
            /\ Get(opt'.response, "origin_city", None) = Get(opt.data, "origin_city", None)
            /\ Get(opt'.response, "destination_city", None)
                    = Get(opt.data, "destination_city", None)
            /\ ~HasKey(opt'.response, "origin")
            /\ ~HasKey(opt'.response, "destination")]_vars

\* C11 witness: the provider wrote origin "Lille" and origin_city "Rome" and
\* no destination; the response has origin_city "Lille" and the request's
\* destination
C11_Witness ==
    /\ opt.pc = "returned"
    /\ opt.text = ObjectText(<<K("origin"), S("Lille")>>, <<>>,
                             <<K("origin_city"), S("Rome")>>, <<>>)
    /\ opt.payload.destination_city = "Lyon"
    /\ Get(opt.response, "origin_city", None) = Str("Lille")
    /\ Get(opt.response, "destination_city", None) = Str("Lyon")
    /\ Get(opt.response, "modes", None) = Arr(<<>>)

(***************************************************************************)
(* Malformed provider output, in both flows.                               *)
(***************************************************************************)
\* a parsed travel-options value of the expected shape: an object whose
\* origin and destination, where present, are strings and whose
\* travel_options, where present, maps modes to lists of options
WellShapedOptions(v) ==
    /\ IsDict(v)
    /\ HasKey(v, "origin") => Get(v, "origin", None).t = "str"
    /\ HasKey(v, "destination") => Get(v, "destination", None).t = "str"
    /\ HasKey(v, "travel_options") =>
        /\ IsDict(Get(v, "travel_options", None))
        /\ \A i \in 1..Len(Get(v, "travel_options", None).l) :
            LET options == Get(v, "travel_options", None).l[i].l[1]
            IN  /\ options.t = "arr"
                /\ \A j \in 1..Len(options.l) : ValidTravelOption(options.l[j])

\* the text is empty, invalid JSON, or JSON of the wrong shape
MalformedOptionsText(text) ==
    ~(json_loads(text).ok /\ WellShapedOptions(json_loads(text).val))

MalformedItineraryText(text) ==
    ~(json_loads(text).ok /\ ValidItineraryResponse(json_loads(text).val))

\* C12 (as claimed): a request whose provider text is malformed ends in a
\* successful schema-valid response, never in HTTP 500, in generate_itinerary
\* and in travel_options alike.
C12_MalformedOutputAbsorbed ==
    /\ (/\ it.pc \in {"returned", "http500"}
        /\ gw.reply.kind = "response"
        /\ MalformedItineraryText(gw.reply.text)) =>
            (it.pc = "returned" /\ ValidItineraryResponse(it.response))
    /\ (OptAnswered /\ MalformedOptionsText(opt.text)) =>
            (opt.pc = "returned" /\ ValidTravelOptionsResponse(opt.response))

(***************************************************************************)
(* Storage failures of the image step, checked under Spec.                 *)
(***************************************************************************)
\* task i of the running batch got image data and could not write its file
WriteFailed(i) ==
    /\ img.task[i] # "pending"
    /\ img.reply[i].kind = "parts"
    /\ FirstDataPart(img.reply[i].parts) # -1
    /\ img.reply[i].write # "ok"

\* C13 (as claimed): a write failure of an image file is not absorbed: the
\* task ends with the exception, the batch does not return a list, and the
\* request goes nowhere but to HTTP 500, with the error as its detail.
C13_WriteFailurePropagates ==
    \A i \in 1..Len(img.task) :
        WriteFailed(i) =>
            /\ img.task[i] = "raised"
            /\ img.pc # "returned"
            /\ it.pc \in {"images", "http500"}
            /\ it.pc = "http500" => it.detail = img.reply[i].write

(***************************************************************************)
(* Outcomes of the two routes, checked under SpecRoutes.                   *)
(***************************************************************************)
ItDone == it.pc \in {"returned", "http500"}

\* C14: a request to either route ends in a response that validates against
\* its schema, with no failure recorded, or in HTTP 500 with a message and no
\* response; an execution that has ended stays as it ended, and every path
\* on which an exception is raised, the validation of the final response
\* included, ends in HTTP 500.
C14_TwoOutcomes ==
    /\ [](it.pc = "returned" =>
            (ValidItineraryResponse(it.response) /\ it.detail = ""))
    /\ [](it.pc = "http500" => (it.detail # "" /\ it.response = None))
    /\ [](opt.pc = "returned" =>
            (ValidTravelOptionsResponse(opt.response) /\ opt.detail = ""))
    /\ [](opt.pc = "http500" => (opt.detail # "" /\ opt.response = None))
    /\ [](it.pc \in {"idle", "start", "gateway", "loop", "images", "validate",
                     "returned", "http500"})
    /\ [](opt.pc \in {"idle", "call", "parse", "fallback", "backfill", "reshape",
                      "rename", "validate", "returned", "http500"})
    /\ [][ItDone => it' = it]_vars
    /\ [][OptDone => opt' = opt]_vars
    /\ [][(it.pc = "validate" /\ ~ValidItineraryResponse(it.data)) =>
            (it'.pc = "http500" /\ it'.detail = "ValidationError")]_vars
    /\ [][(opt.pc = "validate" /\ ~ValidTravelOptionsResponse(opt.data)) =>
            (opt'.pc = "http500" /\ opt'.detail = "ValidationError")]_vars

\* C14 witness: the provider's itinerary went through the image step and
\* was rejected when ItineraryResponse was built; the request ended in HTTP
\* 500 with the validation error as its message
C14_Witness ==
    /\ it.pc = "http500"
    /\ it.detail = "ValidationError"
    /\ IsDict(it.data)
    /\ Len(Days(it.data)) = 1
    /\ img.pc = "returned"
    /\ it.response = None

(***************************************************************************)
(* Sequencing within one itinerary request, checked under Spec.            *)
(***************************************************************************)
\* the image requests in flight: the tasks that wait for their answer
InFlight == {i \in 1..Len(img.task) : img.task[i] = "pending"}

\* position <<d, e>> of the loops is before <<d2, e2>>
Before(d, e, d2, e2) == d < d2 \/ (d = d2 /\ e < e2)

\* C15: the text call is the only one and has returned (with an answer or
\* after its timeout) before any image batch exists; a batch is started only
\* when no task of the batch before it is pending; the loops stand still
\* while a batch runs and move forward, in day order and then entity order,
\* between two batches; at most 2 image requests are in flight.
C15_Sequencing ==
    /\ [](gw.requests <= 1)
    /\ [](img.pc # "idle" => (gw.pc = "returned" /\ it.pc \notin {"start", "gateway"}))
    /\ [](Cardinality(InFlight) <= 2)
    /\ [](InFlight # {} => it.pc = "images")
    /\ [][(img'.pc = "start" /\ img # img') =>
            (InFlight = {} /\ img.pc \in {"idle", "returned"})]_vars
    /\ [][it.pc = "images" =>
            (img' = img \/ (it'.d = it.d /\ it'.e = it.e /\ it'.pc = "images"))]_vars
    /\ [][(it.pc = "images" /\ it'.pc = "loop") =>
            Before(it.d, it.e, it'.d, it'.e)]_vars
    /\ [][(it.pc = "loop" /\ it'.pc \in {"loop", "images"}) =>
            (Before(it.d, it.e, it'.d, it'.e) \/ (it'.d = it.d /\ it'.e = it.e))]_vars

\* C15 witness: the batch of the second entity of day 1 has its two requests
\* in flight, after the batch of the first entity returned its file and the
\* text call returned the provider's itinerary
C15_Witness ==
    /\ it.pc = "images"
    /\ it.d = 1
    /\ it.e = 2
    /\ img.task = <<"pending", "pending">>
    /\ gw.outcome = "parsed"
    /\ Get(EntityAt(it.data, 1, 1), "image_urls", None)
            = Arr(<<Str("/static/itineraries/new-york/gion_0_0.png")>>)

(***************************************************************************)
(* Files of the image step, checked under Spec.                            *)
(***************************************************************************)
\* C16 (as claimed): a path that has been written is never the target of a
\* later write.
C16_WrittenOnce == fs.rewritten = {}

(***************************************************************************)
(* Frame of the image step of generate_itinerary, checked under Spec.      *)
(***************************************************************************)
\* v without the image_urls of its entities; v itself where it has not the
\* shape of an itinerary
StripEntity(x) == IF IsDict(x) THEN DelItem(x, "image_urls") ELSE x

StripDay(x) ==
    IF IsDict(x) /\ Get(x, "entities", None).t = "arr"
    THEN SetItem(x, "entities",
                 Arr([i \in 1..Len(Entities(x)) |-> StripEntity(Entities(x)[i])]))
    ELSE x

StripImageUrls(v) ==
    IF IsDict(v) /\ Get(v, "days", None).t = "arr"
    THEN SetItem(v, "days", Arr([i \in 1..Len(Days(v)) |-> StripDay(Days(v)[i])]))
    ELSE v

\* field k of the response part r has the value the provider gave in part p,
\* or the schema's default
Passed(r, p, k, default) == Get(r, k, None) = Get(p, k, default)

IsFirstData(parts, p) ==
    /\ p \in 1..Len(parts)
    /\ parts[p] \in DataParts
    /\ \A q \in 1..(p - 1) : parts[q] \notin DataParts

\* path is the file of task i (from 1) for the first data part of its answer
IsFileOfTask(path, i) ==
    \E p \in 1..Len(img.reply[i].parts) :
        /\ IsFirstData(img.reply[i].parts, p)
        /\ path = Append(img.output_dir,
                         img.base_file_name \o "_" \o ToString(i - 1) \o "_"
                            \o ToString(p - 1)
                            \o (IF img.reply[i].parts[p] = "png" THEN ".png" ELSE ".bin"))

\* C18: a batch of n prompts issues n provider requests, one per task; the
\* files it writes are at most one per finished task, each the file of the
\* first part with inline data of that task's answer, named with the task's
\* prompt index, no two the same; the returned list has at most n entries.
C18_OneRequestOneFile ==
    /\ img.pc = "start" => img.requests = 0
    /\ img.pc \in {"gather", "returned"} =>
        /\ img.requests = Len(img.prompts)
        /\ \A f \in fs.files :
                \E i \in 1..Len(img.prompts) :
                    /\ img.task[i] = "done"
                    /\ img.result[i] = f
                    /\ IsFileOfTask(f, i)
                    /\ \A j \in 1..Len(img.prompts) : (j # i) => ~IsFileOfTask(f, j)
        /\ Cardinality(fs.files) <= Len(img.completed)
        /\ Cardinality(fs.files) <= Len(img.prompts)
        /\ fs.rewritten = {}
    /\ img.pc = "returned" => Len(img.returned) <= Len(img.prompts)

\* C18 witness: of two prompts, the first was answered with a PNG part
\* followed by another binary part and the second with text and a PNG part;
\* two requests were issued and exactly the two first binary parts written
C18_Witness ==
    /\ img.pc = "returned"
    /\ img.requests = 2
    /\ img.reply[1].parts = <<"png", "bin">>
    /\ img.reply[2].parts = <<"text", "png">>
    /\ fs.files = {<<"app", "static", "itineraries", "kyoto", "gion_0_0.png">>,
                   <<"app", "static", "itineraries", "kyoto", "gion_1_1.png">>}

(***************************************************************************)
(* Termination of an itinerary request, checked under SpecLive.            *)
(***************************************************************************)
\* C19: when every image request is answered, every itinerary request ends
\* in a response or in HTTP 500, whether or not the text provider answers;
\* the text task is cancelled by the expiry of the timer and by nothing else,
\* no image task is ever cancelled, and a batch that has returned has no
\* pending task.
C19_Termination ==
    /\ <>ItDone
    /\ [](gw.task = "cancelled" => gw.timer = "expired")
    /\ [](\A i \in 1..Len(img.task) : img.task[i] \in {"pending", "done"})
    /\ [](img.pc = "returned" => InFlight = {})
    /\ [][(InFlight # {} /\ img'.pc = img.pc) \/ InFlight = {} \/ img' = img]_vars

\* C19 witness: the request has ended with a response although the text
\* provider is still working on the request, which was cancelled at the
\* deadline
C19_Witness ==
    /\ it.pc = "returned"
    /\ gw.provider = "working"
    /\ gw.task = "cancelled"
    /\ gw.timer = "expired"
    /\ ~gw.late

=============================================================================
